---- MODULE Spec2Model ----
(***************************************************************************)
(* A model of the income data pipeline of income_pk_datavis:               *)
(*   funcs/get_inc_data.py  make_query     (statistics fetch)              *)
(*   funcs/clean_data.py    clean_data     (statistics cleaning)           *)
(*   app.py, main_dash.py   boundary cache, pipeline start-up, callbacks   *)
(*   main.py                the streamlit script: process_geojson, merge   *)
(*                                                                         *)
(* Text (area labels, column names) is modelled as sequences of one        *)
(* character strings, so that splitting and substring search are computed  *)
(* character by character as pandas and Python do.                         *)
(***************************************************************************)
EXTENDS Integers, Sequences, FiniteSets, TLC

VARIABLES
    cleanArg,     \* the table passed to clean_data
    cleanRet,     \* what clean_data returned or raised ("not_called" before)
    cleanRet2,    \* what a second call on the same table returned or raised
    queryYears,   \* the years passed to make_query
    queryResp,    \* the answer of the statistics service to that call
    queryRet,     \* what make_query returned or raised ("not_called" before)
    variant,      \* which dash program runs: "app" (app.py) or "main_dash"
    pc,           \* where the process is: import, download, prepare, ...
    procNo,       \* how many times the program has been restarted
    artifact,     \* the boundary cache file assets/helsinki_regions.json
    geojson_path, \* module global geojson_path ("unset", "None" or the path)
    income_df,    \* module global income_df (a table, None, or unset)
    data_pivoted, \* module global data_pivoted of app.py
    lru,          \* the lru_cache of get_income_data
    gets,         \* requests.get calls of this process
    queries,      \* the make_query calls of this process: [call, kind, ret]
    failed,       \* the pipeline stages that failed in this process
    crashed,      \* "" or where an exception escaped
    view,         \* what the last presentation callback rendered
    geojson_data, \* main.py: what load_geojson_data returned (and cached)
    gdf,          \* main.py: what process_geojson returned
    merged_gdf,   \* main.py: what merge_data returned
    report,       \* main.py: the counts the program has shown about the join
    phase,        \* main_dash.py page of one browser: "none", "layout", "loaded"
    disabled,     \* interval-component.disabled
    children,     \* play-button.children (the label of the button)
    value,        \* year-selector.value
    play_n_clicks, \* play-button.n_clicks
    moves         \* how often the user has dragged the slider

cleanVars == <<cleanArg, cleanRet, cleanRet2>>
queryVars == <<queryYears, queryResp, queryRet>>
dashVars == <<variant, pc, procNo, artifact, geojson_path, income_df, data_pivoted,
              lru, gets, queries, failed, crashed, view>>
mainVars == <<geojson_data, gdf, merged_gdf, report>>
playVars == <<phase, disabled, children, value, play_n_clicks, moves>>
vars == <<cleanArg, cleanRet, cleanRet2, queryYears, queryResp, queryRet, variant, pc, procNo, artifact, geojson_path, income_df,
          data_pivoted, lru, gets, queries, failed, crashed, view,
          geojson_data, gdf, merged_gdf, report,
          phase, disabled, children, value, play_n_clicks, moves>>

(***************************************************************************)
(* Bounds of the model.                                                    *)
(***************************************************************************)
MaxRows == 2
MaxFeatures == 2
MaxRestarts == 1
MaxCsvRows == 2
MaxClicks == 3
MaxMoves == 2

(***************************************************************************)
(* Text helpers: Python's str methods on sequences of characters.          *)
(***************************************************************************)
SPACE == " "
TAB == "\t"
Digits == {"0", "1", "2", "3", "4", "5", "6", "7", "8", "9"}

\* str.isnumeric(): at least one character and every character numeric.
isnumeric(s) == Len(s) > 0 /\ \A i \in 1..Len(s) : s[i] \in Digits

\* pat in s  (str.contains with a plain pattern).
contains(s, pat) ==
    \E i \in 0..(Len(s) - Len(pat)) : SubSeq(s, i + 1, i + Len(pat)) = pat

\* Position of the first occurrence of character c in s, 0 when there is none.
find(s, c) ==
    IF \E i \in 1..Len(s) : s[i] = c
    THEN CHOOSE i \in 1..Len(s) : s[i] = c /\ \A j \in 1..(i - 1) : s[j] # c
    ELSE 0

\* s.split(sep, n): split at the first n occurrences of the single character
\* sep; empty pieces are kept.
RECURSIVE split(_, _, _)
split(s, sep, n) ==
    LET p == find(s, sep)
    IN  IF n = 0 \/ p = 0
        THEN <<s>>
        ELSE <<SubSeq(s, 1, p - 1)>> \o split(SubSeq(s, p + 1, Len(s)), sep, n - 1)

\* str(n) for a natural number n.
DigitChar(d) ==
    CASE d = 0 -> "0" [] d = 1 -> "1" [] d = 2 -> "2" [] d = 3 -> "3"
      [] d = 4 -> "4" [] d = 5 -> "5" [] d = 6 -> "6" [] d = 7 -> "7"
      [] d = 8 -> "8" [] d = 9 -> "9"
RECURSIVE str(_)
str(n) == IF n < 10 THEN <<DigitChar(n)>> ELSE str(n \div 10) \o <<DigitChar(n % 10)>>

(***************************************************************************)
(* Column names and the district marker of clean_data.                     *)
(***************************************************************************)
ALUE == <<"A","l","u","e">>
ALUENUM == <<"A","l","u","e","N","u","m">>
ALUENIMI == <<"A","l","u","e","N","i","m","i">>
KUNTANUM == <<"K","u","n","t","a","N","u","m">>
PIIRI == <<"p","i","i","r","i">>
\* maxsplit of the label split
SplitN == 2

\* A missing cell: read_csv turns an empty cell into NaN, so a label is either
\* NaN (the empty sequence here) or a non-empty text.  A missing piece of a
\* split (None) is the one-element sequence NoneVal, which no text equals
\* because every element of a text is a single character.
NaNLabel == <<>>
NoneVal == <<"None">>

(***************************************************************************)
(* Tables.  A table is [exc, columns, rows]: exc = "" for a DataFrame,     *)
(* otherwise the exception raised instead of returning one.  A row of a    *)
(* statistics table is [idx, Alue, val]; a row of a cleaned table is       *)
(* [idx, val, AlueNum, AlueNimi, KuntaNum].                                *)
(***************************************************************************)
Raised(e) == [exc |-> e, columns |-> {}, rows |-> <<>>]
Frame(cols, rws) == [exc |-> "", columns |-> cols, rows |-> rws]
\* pd.DataFrame()
EmptyDataFrame == Frame({}, <<>>)

\* Cell values of a DataFrame: a float, NaN, or a text (object dtype).
Num(n) == [k |-> "num", n |-> n, s |-> <<>>]
NaN == [k |-> "nan", n |-> 0, s |-> <<>>]
Str(t) == [k |-> "str", n |-> 0, s |-> t]

Max(S) == IF S = {} THEN 0 ELSE CHOOSE m \in S : \A x \in S : x <= m

\* (mutation) the district filter left out
NotDistrict_off(r) == r.Alue # NaNLabel

\* df['Alue'].str.contains('piiri') == False : NaN == False is False
NotDistrict(r) == r.Alue # NaNLabel /\ ~contains(r.Alue, PIIRI)

\* df['Alue'].str.split(' ', n=2): the pieces of one row
Pieces(r) == split(r.Alue, SPACE, SplitN)

\* Aluecol[1].str.isnumeric() of one row with at least two pieces
NumericRegion(r) == isnumeric(Pieces(r)[2])

\* (mutation) the derived columns taken from the wrong pieces
CleanRow_swapped(r) ==
    [idx |-> r.idx, val |-> r.val,
     AlueNum |-> Pieces(r)[1],
     AlueNimi |-> IF Len(Pieces(r)) >= 3 THEN Pieces(r)[3] ELSE NoneVal,
     KuntaNum |-> Pieces(r)[2]]

CleanRow(r) ==
    [idx |-> r.idx, val |-> r.val,
     AlueNum |-> Pieces(r)[2],
     AlueNimi |-> IF Len(Pieces(r)) >= 3 THEN Pieces(r)[3] ELSE NoneVal,
     KuntaNum |-> Pieces(r)[1]]

clean_data(df) ==
    IF ALUE \notin df.columns THEN Raised("KeyError")           \* df['Alue']
    ELSE
      LET df1 == SelectSeq(df.rows, NotDistrict)
          \* expand=True: as many columns as the longest split has pieces
          ncols == Max({Len(Pieces(df1[i])) : i \in 1..Len(df1)})
      IN  IF ncols < 2 THEN Raised("KeyError")                  \* Aluecol[1]
          \* a row with one piece has None in column 1, isnumeric gives NaN,
          \* and a mask holding NaN cannot index
          ELSE IF \E i \in 1..Len(df1) : Len(Pieces(df1[i])) < 2
               THEN Raised("ValueError")                        \* df[mask2]
          ELSE IF ncols < 3 THEN Raised("KeyError")             \* Aluecol[2]
          ELSE LET df2 == SelectSeq(df1, NumericRegion)
               IN  Frame((df.columns \ {ALUE}) \cup {ALUENUM, ALUENIMI, KUNTANUM},
                         [i \in 1..Len(df2) |-> CleanRow(df2[i])])

(***************************************************************************)
(* make_query (funcs/get_inc_data.py).  The statistics service answers a   *)
(* POST with [kind, csv]: kind "network" (requests.post raises), "status"  *)
(* (a status other than 200) or "ok" (200 with the csv text, given as      *)
(* [header, rows], one text per cell).                                     *)
(***************************************************************************)
DOTS == <<".", ".">>

DigitVal(c) ==
    CASE c = "0" -> 0 [] c = "1" -> 1 [] c = "2" -> 2 [] c = "3" -> 3
      [] c = "4" -> 4 [] c = "5" -> 5 [] c = "6" -> 6 [] c = "7" -> 7
      [] c = "8" -> 8 [] c = "9" -> 9
RECURSIVE atoi(_)
atoi(t) == IF Len(t) = 0 THEN 0
           ELSE 10 * atoi(SubSeq(t, 1, Len(t) - 1)) + DigitVal(t[Len(t)])

\* (mutation) the raw header kept as the column name
ColumnName_raw(h) == h

\* df.columns[i].split(' ')[0]
ColumnName(h) == split(h, SPACE, -1)[1]

\* pd.read_csv on column j: an empty cell is NaN; a column whose other cells
\* are all numbers is numeric, any other column keeps its texts.
ColumnIsNumeric(csv, j) ==
    \A i \in 1..Len(csv.rows) : csv.rows[i][j] = <<>> \/ isnumeric(csv.rows[i][j])
ReadCell(t, numeric) ==
    IF t = <<>> THEN NaN
    ELSE IF numeric THEN Num(atoi(t)) ELSE Str(t)

\* (mutation) the sentinel read as zero
Replaced_zero(v) == IF v = Str(DOTS) THEN Num(0) ELSE v

\* df.replace('..', np.nan)
Replaced(v) == IF v = Str(DOTS) THEN NaN ELSE v

\* df[years].astype(float) on one cell; "error" when the text is no number
AsFloat(v) ==
    IF v.k = "str" THEN (IF isnumeric(v.s) THEN Num(atoi(v.s)) ELSE Str(<<"error">>))
    ELSE v

\* The DataFrame make_query builds from the csv text of a 200 answer.  (Two
\* raw headers with the same first piece are not modelled: a name stands for
\* the first column that carries it.)
ParsedTable(csv, years) ==
    LET H == Len(csv.header)
        names == [j \in 1..H |-> ColumnName(csv.header[j])]
        cols == {names[j] : j \in 1..H}
        at == [c \in cols |-> CHOOSE j \in 1..H :
                                 names[j] = c /\ \A k \in 1..(j - 1) : names[k] # c]
        numeric == [j \in 1..H |-> ColumnIsNumeric(csv, j)]
        \* read_csv, then replace
        cell == [i \in 1..Len(csv.rows) |->
                   [j \in 1..H |-> Replaced(ReadCell(csv.rows[i][j], numeric[j]))]]
        \* dropna(how='all'): only a row whose every cell is NaN goes
        kept == {i \in 1..Len(csv.rows) : \E j \in 1..H : cell[i][j] # NaN}
        yearset == {years[k] : k \in 1..Len(years)}
        float == [i \in 1..Len(csv.rows) |->
                    [c \in cols \ {ALUE} |->
                       IF c \in yearset THEN AsFloat(cell[i][at[c]]) ELSE cell[i][at[c]]]]
        row(i) == [idx |-> i - 1,
                   Alue |-> IF ALUE \in cols /\ cell[i][at[ALUE]].k = "str"
                            THEN cell[i][at[ALUE]].s ELSE NaNLabel,
                   val |-> float[i]]
        RECURSIVE rowsFrom(_)
        rowsFrom(i) ==
            IF i > Len(csv.rows) THEN <<>>
            ELSE (IF i \in kept THEN <<row(i)>> ELSE <<>>) \o rowsFrom(i + 1)
    IN  IF ~(yearset \subseteq cols) THEN Raised("KeyError")          \* df[years]
        ELSE IF \E i \in kept : \E c \in yearset \ {ALUE} :
                    float[i][c] = Str(<<"error">>)
             THEN Raised("ValueError")                                \* astype(float)
        ELSE Frame(cols, rowsFrom(1))

make_query(years, resp) ==
    IF resp.kind = "network" THEN Raised("ConnectionError")           \* requests.post
    ELSE IF resp.kind = "ok" THEN ParsedTable(resp.csv, years)
    ELSE EmptyDataFrame

(***************************************************************************)
(* Area labels the statistics table is drawn from.                         *)
(***************************************************************************)
L_Jollas == <<"0","9","1"," ","2","2","0"," ","J","o","l","l","a","s">>
L_PiiriKeskinen == <<"0","9","1"," ","p","i","i","r","i"," ","K","e","s","k","i","n","e","n">>
L_AbcName == <<"0","9","1"," ","a","b","c"," ","N","a","m","e">>
L_PiiriOnly == <<"0","9","1"," ","p","i","i","r","i">>
L_PohjoisTapiola == <<"0","4","9"," ","3","1","1"," ","P","o","h","j","o","i","s"," ","T","a","p","i","o","l","a">>
L_Suurpiiri == <<"0","9","1"," ","1"," ","E","t","u"," ","s","u","u","r","p","i","i","r","i">>
L_JollasVantaa == <<"0","9","2"," ","6","4"," ","J","o","l","l","a","s">>
L_TwoTokens == <<"0","9","1"," ","2","2","0">>
L_OneToken == <<"H","e","l","s","i","n","k","i">>
L_LeadingSpace == <<" ","2","2","0"," ","5"," ","X">>
L_DoubleSpaceName == <<"0","9","1"," ","2","2","0"," "," ","J","o","l","l","a","s">>
L_DoubleSpaceNum == <<"0","9","1"," "," ","2","2","0"," ","J","o","l","l","a","s">>
L_Tab == <<"0","9","1","\t","5"," ","2","2","0"," ","X">>
L_Otaniemi == <<"0","4","9"," ","1","2"," ","O","t","a","n","i","e","m","i">>
L_Laajasalo == <<"0","9","1"," ","2","3","0"," ","L","a","a","j","a","s","a","l","o">>

LabelPool ==
    {NaNLabel, L_Jollas, L_PiiriKeskinen, L_AbcName, L_PiiriOnly,
     L_PohjoisTapiola, L_Suurpiiri, L_JollasVantaa, L_TwoTokens, L_OneToken,
     L_LeadingSpace, L_DoubleSpaceName, L_DoubleSpaceNum, L_Tab}

SeqsUpTo(S, n) == UNION {[1..k -> S] : k \in 0..n}

\* The statistics table of the labels ls with one year column; the cell of
\* row i holds i (row index i-1 as in pandas' RangeIndex).
Y2022 == str(2022)
TableOf(ls) ==
    Frame({ALUE, Y2022},
          [i \in 1..Len(ls) |-> [idx |-> i - 1, Alue |-> ls[i], val |-> (Y2022 :> Num(i))]])

CleanInputs == {TableOf(ls) : ls \in SeqsUpTo(LabelPool, MaxRows)}

(***************************************************************************)
(* Configuration of app.py / main_dash.py / main.py.                       *)
(***************************************************************************)
MIN_YEAR == 2005
MAX_YEAR == 2023
\* list(range(2005, 2024))
AVAILABLE_YEARS == [i \in 1..(MAX_YEAR - MIN_YEAR + 1) |-> MIN_YEAR + i - 1]
\* MUNICIPALITY_CODES.keys()
MUNICIPALITY_CODES == {"091", "049", "092"}
NIMI == <<"n","i","m","i">>
KUNTA == <<"k","u","n","t","a">>
GML_ID == <<"g","m","l","_","i","d">>
\* essential_props
EssentialProps == {NIMI, KUNTA}

\* list(map(str, AVAILABLE_YEARS)), the years get_income_data asks for
AppYears == [i \in 1..Len(AVAILABLE_YEARS) |-> str(AVAILABLE_YEARS[i])]
\* the years of the call at the end of funcs/get_inc_data.py
ImportYears == <<str(2022), str(2021)>>
\* the years main.py asks for
MainYears == <<str(2022)>>

(***************************************************************************)
(* The statistics service.  An answer is described by [kind, omit, rows]:  *)
(* rows give the label and the kind of cells of each csv line; the csv     *)
(* has one column per requested year (all but the last when omit).         *)
(***************************************************************************)
HeaderSuffix == <<" ","M","e","d","i","a","n">>

CellText(cells, i, k) ==
    CASE cells = "num" -> str(1000 * i + k)
      [] cells = "dots" -> DOTS
      [] cells = "mixed" -> (IF k = 1 THEN DOTS ELSE str(1000 * i + k))
      [] cells = "bad" -> <<"a","b","c">>

CsvFor(v, years) ==
    LET n == IF v.omit THEN Len(years) - 1 ELSE Len(years)
    IN  [header |-> <<ALUE>> \o [k \in 1..n |-> years[k] \o HeaderSuffix],
         rows |-> [i \in 1..Len(v.rows) |->
                     <<v.rows[i].Alue>>
                     \o [k \in 1..n |-> CellText(v.rows[i].cells, i, k)]]]

Answer(v, years) == [kind |-> v.kind, csv |-> CsvFor(v, years)]

Line(l, c) == [Alue |-> l, cells |-> c]
Ok(rws) == [kind |-> "ok", omit |-> FALSE, rows |-> rws]

StatsAnswers ==
    { [kind |-> "network", omit |-> FALSE, rows |-> <<>>],
      [kind |-> "status", omit |-> FALSE, rows |-> <<>>],
      [kind |-> "ok", omit |-> TRUE, rows |-> <<Line(L_Jollas, "num")>>],
      Ok(<<>>),
      Ok(<<Line(L_Jollas, "num"), Line(L_PohjoisTapiola, "mixed"),
           Line(L_Suurpiiri, "num"), Line(L_AbcName, "num")>>),
      Ok(<<Line(L_Jollas, "num"), Line(L_Laajasalo, "dots")>>),
      Ok(<<Line(L_Jollas, "num"), Line(L_Otaniemi, "num")>>),
      Ok(<<Line(L_TwoTokens, "num")>>),
      Ok(<<Line(L_Jollas, "bad")>>) }

(***************************************************************************)
(* The boundary service.  A raw feature is [nimi, kunta, geom, props]:     *)
(* kunta "none" when the feature has no 'kunta' property, geom "bad" when  *)
(* shapely cannot build the geometry, props the keys of its properties.    *)
(***************************************************************************)
N_Jollas == <<"J","o","l","l","a","s">>
N_Laajasalo == <<"L","a","a","j","a","s","a","l","o">>
N_Otaniemi == <<"O","t","a","n","i","e","m","i">>
N_Sipoo == <<"S","i","p","o","o">>

Feature(nm, ku, g) ==
    [nimi |-> nm, kunta |-> ku, geom |-> g,
     props |-> IF ku = "none" THEN {NIMI, GML_ID} ELSE {NIMI, KUNTA, GML_ID}]

FeaturePool ==
    { Feature(N_Jollas, "091", "Polygon"),
      Feature(N_Laajasalo, "091", "MultiPolygon"),
      Feature(N_Otaniemi, "049", "Polygon"),
      Feature(N_Sipoo, "000", "Polygon"),
      Feature(N_Sipoo, "none", "Polygon"),
      Feature(N_Laajasalo, "092", "bad"),
      Feature(N_Sipoo, "000", "bad") }

\* three regions, one of them outside the three municipalities
ThreeRegions ==
    << Feature(N_Jollas, "091", "Polygon"),
       Feature(N_Sipoo, "000", "Polygon"),
       Feature(N_Otaniemi, "049", "MultiPolygon") >>

WfsAnswers ==
    { [kind |-> k, features |-> <<>>] : k \in {"network", "status", "malformed"} }
    \cup { [kind |-> "ok", features |-> fs] : fs \in SeqsUpTo(FeaturePool, MaxFeatures) }
    \cup { [kind |-> "ok", features |-> ThreeRegions] }

\* what can happen to open(geojson_path, 'w') / json.dump
WriteOutcomes == {"ok", "open_fails", "dump_fails"}

(***************************************************************************)
(* download_and_optimize_geojson (app.py, main_dash.py).  The cache        *)
(* artifact is [exists, complete, features].                               *)
(***************************************************************************)
Absent == [exists |-> FALSE, complete |-> FALSE, features |-> <<>>]
PATH == "assets/helsinki_regions.json"

\* feature['properties'].get('kunta') in MUNICIPALITY_CODES.keys()
InMunicipalities(f) == f.kunta \in MUNICIPALITY_CODES

\* The steps applied to a feature that passed the filter; hist is the list
\* of the steps the feature has gone through, in the order they ran.
Step(g, name) == [g EXCEPT !.hist = Append(@, name)]
\* gdf.to_crs(TARGET_CRS)
to_crs(g) == Step(g, "reproject")
\* gdf['geometry'].simplify(tolerance=0.00001, preserve_topology=True)
simplify(g) == Step(g, "simplify")
\* round(coord, 6) on every coordinate of the Polygon / MultiPolygon
RoundCoordinates(g) == Step(g, "round")
\* keep only the essential properties
StripProperties(g) == [Step(g, "strip") EXCEPT !.props = @ \cap EssentialProps]

Filtered(f) ==
    [nimi |-> f.nimi, kunta |-> f.kunta, geom |-> f.geom, props |-> f.props,
     hist |-> <<"filter">>]

\* (mutation) the coordinates rounded before the simplification
Optimized_roundfirst(f) == StripProperties(simplify(RoundCoordinates(to_crs(Filtered(f)))))

\* reproject, simplify, round the coordinates, keep the essential properties
Optimized(f) == StripProperties(RoundCoordinates(simplify(to_crs(Filtered(f)))))

\* The result [path, artifact] of a call that finds no artifact, given the
\* service's answer and the outcome of the write.
FetchAndOptimize(ans, w) ==
    LET filtered_features == SelectSeq(ans.features, InMunicipalities)
        done == [i \in 1..Len(filtered_features) |-> Optimized(filtered_features[i])]
    IN  IF ans.kind # "ok" THEN [path |-> "None", artifact |-> Absent]
        \* shape(feature['geometry']) raises
        ELSE IF \E i \in 1..Len(filtered_features) : filtered_features[i].geom = "bad"
             THEN [path |-> "None", artifact |-> Absent]
        ELSE IF w = "open_fails" THEN [path |-> "None", artifact |-> Absent]
        \* open() has created the file, json.dump raises: the file stays
        ELSE IF w = "dump_fails"
             THEN [path |-> "None",
                   artifact |-> [exists |-> TRUE, complete |-> FALSE, features |-> <<>>]]
        ELSE [path |-> PATH,
              artifact |-> [exists |-> TRUE, complete |-> TRUE, features |-> done]]

\* (mutation) the cache check left out: always fetch
download_and_optimize_geojson_nocache(art, ans, w) ==
    FetchAndOptimize(ans, w) @@ [fetched |-> TRUE]

download_and_optimize_geojson(art, ans, w) ==
    IF art.exists                                   \* os.path.exists(geojson_path)
    THEN [path |-> PATH, artifact |-> art, fetched |-> FALSE]
    ELSE FetchAndOptimize(ans, w) @@ [fetched |-> TRUE]

(***************************************************************************)
(* get_income_data and prepare_data (app.py, main_dash.py).                *)
(***************************************************************************)
NoneFrame == Raised("None")
Unset == Raised("unset")
NotCalled == Raised("not_called")

\* make_query(years) under each answer of the service, for the three year
\* lists the programs ask for.
ImportQuery == [v \in StatsAnswers |-> make_query(ImportYears, Answer(v, ImportYears))]
AppQuery == [v \in StatsAnswers |-> make_query(AppYears, Answer(v, AppYears))]
MainQuery == [v \in StatsAnswers |-> make_query(MainYears, Answer(v, MainYears))]

\* (mutation) get_income_data without its try/except
get_income_data_nocatch(inc_data) ==
    IF inc_data.exc # "" THEN inc_data ELSE clean_data(inc_data)

\* The body of get_income_data, given what its make_query call gave: any
\* exception of make_query or clean_data is caught and None returned.
get_income_data(inc_data) ==
    LET cleaned == IF inc_data.exc # "" THEN inc_data ELSE clean_data(inc_data)
    IN  IF cleaned.exc # "" THEN NoneFrame ELSE cleaned

AppIncome == [v \in StatsAnswers |-> get_income_data(AppQuery[v])]

\* income_cols
IncomeCols == {AppYears[i] : i \in 1..Len(AppYears)} \cup {ALUENIMI}

\* prepare_data, given what get_income_data returned; an exception that
\* reaches it passes through it.
prepare_data(income_data) ==
    IF income_data.exc # "" THEN income_data          \* None, or an exception
    ELSE IF ~(IncomeCols \subseteq income_data.columns) THEN Raised("KeyError")
    ELSE Frame(IncomeCols,
               [i \in 1..Len(income_data.rows) |->
                  [idx |-> income_data.rows[i].idx,
                   val |-> [c \in IncomeCols \ {ALUENIMI} |-> income_data.rows[i].val[c]],
                   AlueNimi |-> income_data.rows[i].AlueNimi]])

\* The stages that failed in a run of get_income_data whose make_query call
\* was answered by v and gave inc_data.
StatsFailures(v, inc_data) ==
    IF v.kind # "ok" \/ inc_data.exc # "" THEN {"statistics"}
    ELSE IF clean_data(inc_data).exc # "" THEN {"cleaning"}
    ELSE {}
AppFailures == [v \in StatsAnswers |-> StatsFailures(v, AppQuery[v])]
MainFailures == [v \in StatsAnswers |-> StatsFailures(v, MainQuery[v])]

(***************************************************************************)
(* main.py: process_geojson, get_income_data, merge_data.                  *)
(***************************************************************************)
GEOMETRY == <<"g","e","o","m","e","t","r","y">>
\* the income column merge_data selects
INCOME_2022 == <<"2","0","2","2"," ","V","a","l","t","i","o","n","v","e","r","o","n","a","l","a","i","s","t","e","n"," ","t","u","l","o","j","e","n"," ","k","e","s","k","i","a","r","v","o",","," ","e","u","r","o","a">>

\* if 'kunta' in gdf.columns: filter; the column exists when any feature
\* carries the property
KeptByMunicipality(features) ==
    IF \E i \in 1..Len(features) : KUNTA \in features[i].props
    THEN SelectSeq(features, InMunicipalities)
    ELSE features

\* process_geojson(geojson_data) for a fetched collection: every geometry is
\* built before the filter; the rows keep all their properties.
process_geojson(data) ==
    IF \E i \in 1..Len(data.features) : data.features[i].geom = "bad"
    THEN Raised("GeometryError")                                 \* shape(...)
    ELSE Frame(UNION {data.features[i].props : i \in 1..Len(data.features)}
               \cup {GEOMETRY},
               KeptByMunicipality(data.features))

\* get_income_data of main.py, given what its make_query call gave
main_get_income_data(inc_data) ==
    LET cleaned == IF inc_data.exc # "" THEN inc_data ELSE clean_data(inc_data)
    IN  IF cleaned.exc # "" THEN NoneFrame ELSE cleaned
MainIncome == [v \in StatsAnswers |-> main_get_income_data(MainQuery[v])]

\* pd.merge(gdf, income_data_slim, left_on='nimi', right_on='AlueNimi',
\* how='inner'): for each boundary row in order, the statistics rows of the
\* same name.
RECURSIVE InnerJoin(_, _)
InnerJoin(left, right) ==
    IF left = <<>> THEN <<>>
    ELSE LET l == Head(left)
             hits == SelectSeq(right, LAMBDA r : r.AlueNimi = l.nimi)
         IN  [i \in 1..Len(hits) |->
                [nimi |-> l.nimi, kunta |-> l.kunta, AlueNimi |-> hits[i].AlueNimi,
                 idx |-> hits[i].idx, val |-> hits[i].val]]
             \o InnerJoin(Tail(left), right)

merge_data(g, income_data) ==
    IF g.exc = "None" \/ income_data.exc = "None" THEN NoneFrame
    \* income_data[income_cols]
    ELSE IF ~({ALUENIMI, INCOME_2022} \subseteq income_data.columns)
         THEN Raised("KeyError")
    ELSE Frame(g.columns \cup {ALUENIMI, INCOME_2022},
               InnerJoin(g.rows, income_data.rows))

(***************************************************************************)
(* SpecClean: clean_data applied to a table.                               *)
(***************************************************************************)
\* The variables of the dash programs while only clean_data is studied, and
\* the variables of clean_data while the programs are.
DashIdle ==
    /\ variant = "none" /\ pc = "idle" /\ procNo = 0 /\ artifact = Absent
    /\ geojson_path = "unset" /\ income_df = Unset /\ data_pivoted = <<>>
    /\ lru = Unset /\ gets = 0 /\ queries = <<>> /\ failed = {}
    /\ crashed = "" /\ view = "none"
CleanIdle == cleanArg = EmptyDataFrame /\ cleanRet = NotCalled /\ cleanRet2 = NotCalled
QueryIdle ==
    /\ queryYears = <<>>
    /\ queryResp = [kind |-> "unset", csv |-> [header |-> <<>>, rows |-> <<>>]]
    /\ queryRet = NotCalled
NoAnswer == [kind |-> "unset", features |-> <<>>]
NoCounts == [c \in {} |-> 0]
MainIdle ==
    /\ geojson_data = NoAnswer /\ gdf = Unset /\ merged_gdf = Unset
    /\ report = NoCounts
\* app.layout: Button('Play', n_clicks=0), Slider(value=MAX_YEAR),
\* Interval(disabled=True)
LayoutValues ==
    /\ disabled = TRUE /\ children = "Play" /\ value = MAX_YEAR
    /\ play_n_clicks = 0 /\ moves = 0
PlayIdle == phase = "none" /\ LayoutValues

InitClean ==
    /\ cleanArg \in CleanInputs
    /\ cleanRet = NotCalled /\ cleanRet2 = NotCalled
    /\ QueryIdle
    /\ DashIdle
    /\ MainIdle
    /\ PlayIdle

\* (mutation) the derived columns written into the caller's table
InputAfterCall_inplace(df) ==
    IF clean_data(df).exc # "" THEN df ELSE clean_data(df)

\* The caller's table after clean_data(df): df = df[mask] binds the local
\* name to a new table (boolean indexing copies), and every later statement
\* (df = df[mask2], df['AlueNum'] = ..., df = df.drop(...)) works on it.
InputAfterCall(df) == df

CleanFrame ==
    /\ UNCHANGED queryVars
    /\ UNCHANGED dashVars
    /\ UNCHANGED mainVars
    /\ UNCHANGED playVars

CallCleanData ==
    /\ cleanRet = NotCalled
    /\ cleanRet' = clean_data(cleanArg)
    /\ cleanArg' = InputAfterCall(cleanArg)
    /\ UNCHANGED cleanRet2
    /\ CleanFrame

\* a second call with the table the caller still holds
CallCleanDataAgain ==
    /\ cleanRet # NotCalled /\ cleanRet2 = NotCalled
    /\ cleanRet2' = clean_data(cleanArg)
    /\ cleanArg' = InputAfterCall(cleanArg)
    /\ UNCHANGED cleanRet
    /\ CleanFrame

NextClean ==
    \/ CallCleanData
    \/ CallCleanDataAgain

SpecClean == InitClean /\ [][NextClean]_vars

(***************************************************************************)
(* SpecQuery: one call of make_query on an answer given as raw csv text.   *)
(***************************************************************************)
Y2005 == str(2005)
Y2006 == str(2006)
QueryYears == {<<Y2005, Y2006>>, <<Y2005>>, <<Y2006>>}

\* raw header lines: the usual "<year> <suffix>", a bare year next to a
\* suffix of two words, a tab after the year, a space before the label name
QueryHeaders ==
    { <<ALUE, Y2005 \o HeaderSuffix, Y2006 \o HeaderSuffix>>,
      <<ALUE, Y2005, Y2006 \o HeaderSuffix \o <<" ","e","u","r","o","a">> >>,
      <<ALUE, Y2005 \o <<TAB>> \o <<"M","e","d">>, Y2006 \o HeaderSuffix>>,
      <<<<SPACE>> \o ALUE, Y2005 \o HeaderSuffix, Y2006 \o HeaderSuffix>> }

T_1500 == <<"1","5","0","0">>
T_Zero == <<"0">>
T_Abc == <<"a","b","c">>
\* raw csv lines: label, cell of 2005, cell of 2006
RawLinePool ==
    { <<L_Jollas, T_1500, T_Zero>>,
      <<L_Jollas, DOTS, T_1500>>,
      <<L_Laajasalo, DOTS, DOTS>>,
      <<L_Laajasalo, T_Zero, DOTS>>,
      <<L_Otaniemi, <<>>, DOTS>>,
      <<L_Otaniemi, <<>>, <<>> >>,
      <<NaNLabel, DOTS, DOTS>>,
      <<NaNLabel, <<>>, <<>> >>,
      <<L_Jollas, T_Abc, T_1500>> }

QueryResponses ==
    { [kind |-> k, csv |-> [header |-> <<>>, rows |-> <<>>]] : k \in {"network", "status"} }
    \cup { [kind |-> "ok", csv |-> [header |-> h, rows |-> rs]] :
             h \in QueryHeaders, rs \in SeqsUpTo(RawLinePool, MaxCsvRows) }

InitQuery ==
    /\ queryYears \in QueryYears
    /\ queryResp \in QueryResponses
    /\ queryRet = NotCalled
    /\ CleanIdle
    /\ DashIdle
    /\ MainIdle
    /\ PlayIdle

CallMakeQuery ==
    /\ queryRet = NotCalled
    /\ queryRet' = make_query(queryYears, queryResp)
    /\ UNCHANGED <<queryYears, queryResp>>
    /\ UNCHANGED cleanVars
    /\ UNCHANGED dashVars
    /\ UNCHANGED mainVars
    /\ UNCHANGED playVars

NextQuery == CallMakeQuery

SpecQuery == InitQuery /\ [][NextQuery]_vars

(***************************************************************************)
(* Spec: one of the dash programs (app.py or main_dash.py) starts, serves  *)
(* callbacks, and may be restarted; the cache artifact outlives a process. *)
(***************************************************************************)
Init ==
    /\ variant \in {"app", "main_dash"}
    /\ pc = "import" /\ procNo = 0 /\ artifact = Absent
    /\ geojson_path = "unset" /\ income_df = Unset /\ data_pivoted = <<>>
    /\ lru = Unset /\ gets = 0 /\ queries = <<>> /\ failed = {}
    /\ crashed = "" /\ view = "none"
    /\ CleanIdle
    /\ QueryIdle
    /\ MainIdle
    /\ PlayIdle

Crash(where) == pc' = "crashed" /\ crashed' = where

\* from funcs.get_inc_data import make_query: the module body ends with
\* make_query(["2022","2021"]), whose result is dropped.
ImportFuncs ==
    /\ pc = "import"
    /\ \E v \in StatsAnswers :
         LET ret == ImportQuery[v]
         IN  /\ queries' = Append(queries, [call |-> "import", kind |-> v.kind, ret |-> ret])
             /\ IF ret.exc # "" THEN Crash("import")
                ELSE pc' = "download" /\ UNCHANGED crashed
    /\ UNCHANGED <<variant, procNo, artifact, geojson_path, income_df, data_pivoted,
                   lru, gets, failed, view>>
    /\ UNCHANGED cleanVars
    /\ UNCHANGED queryVars
    /\ UNCHANGED mainVars
    /\ UNCHANGED playVars

\* geojson_path = download_and_optimize_geojson()
DownloadAndOptimize ==
    /\ pc = "download"
    /\ \E ans \in WfsAnswers, w \in WriteOutcomes :
         LET r == download_and_optimize_geojson(artifact, ans, w)
         IN  /\ geojson_path' = r.path
             /\ artifact' = r.artifact
             /\ gets' = IF r.fetched THEN gets + 1 ELSE gets
             /\ failed' = IF r.path = "None" THEN failed \cup {"boundary"} ELSE failed
    /\ pc' = "prepare"
    /\ UNCHANGED <<variant, procNo, income_df, data_pivoted, lru, queries, crashed, view>>
    /\ UNCHANGED cleanVars
    /\ UNCHANGED queryVars
    /\ UNCHANGED mainVars
    /\ UNCHANGED playVars

\* income_df = prepare_data()
PrepareData ==
    /\ pc = "prepare"
    /\ \E v \in StatsAnswers :
         LET hit == lru # Unset
             income_data == IF hit THEN lru ELSE AppIncome[v]
             df == prepare_data(income_data)
         IN  /\ lru' = IF income_data.exc \in {"", "None"} THEN income_data ELSE lru
             /\ queries' = IF hit THEN queries
                           ELSE Append(queries, [call |-> "get_income_data", kind |-> v.kind,
                                                 ret |-> AppQuery[v]])
             /\ failed' = IF hit THEN failed ELSE failed \cup AppFailures[v]
             /\ IF df.exc \in {"", "None"}
                THEN /\ income_df' = df
                     /\ pc' = IF variant = "app" THEN "module_init" ELSE "serving"
                     /\ UNCHANGED crashed
                ELSE /\ Crash("prepare")
                     /\ UNCHANGED income_df
    /\ UNCHANGED <<variant, procNo, artifact, geojson_path, data_pivoted, gets, view>>
    /\ UNCHANGED cleanVars
    /\ UNCHANGED queryVars
    /\ UNCHANGED mainVars
    /\ UNCHANGED playVars

\* app.py lines 350-357: areanames and data_pivoted are built from income_df
\* without a check for None.  data_pivoted keeps the area names that become
\* its columns.
ModuleInit ==
    /\ pc = "module_init"
    /\ IF income_df = NoneFrame
       THEN Crash("module_init") /\ UNCHANGED data_pivoted      \* None['AlueNimi']
       ELSE /\ data_pivoted' = [i \in 1..Len(income_df.rows) |-> income_df.rows[i].AlueNimi]
            /\ pc' = "serving"
            /\ UNCHANGED crashed
    /\ UNCHANGED <<variant, procNo, artifact, geojson_path, income_df, lru, gets,
                   queries, failed, view>>
    /\ UNCHANGED cleanVars
    /\ UNCHANGED queryVars
    /\ UNCHANGED mainVars
    /\ UNCHANGED playVars

(***************************************************************************)
(* Presentation callbacks.  view is what the callback returned:            *)
(* "error_figure" (px.scatter titled with the error), "map", "chart",      *)
(* "empty_div", "no_data" ("No data available"), "error_div", "table",     *)
(* "usage", or "http500" when an exception escaped the callback.           *)
(***************************************************************************)
Unavailable == geojson_path = "None" \/ income_df = NoneFrame

\* the values a dropdown can hand to a callback: None or a list of names
AreaInputs ==
    { [none |-> TRUE, list |-> <<>>] }
    \cup { [none |-> FALSE, list |-> l] :
             l \in {<<>>, <<N_Jollas>>, <<N_Laajasalo>>, <<N_Sipoo>>} }
Clicks == {0, 1}

IsColumn(a) == \E i \in 1..Len(data_pivoted) : data_pivoted[i] = a
\* data_pivoted[area].dropna() is empty
EmptySeries(a) ==
    \A i \in 1..Len(income_df.rows) :
        income_df.rows[i].AlueNimi = a =>
            \A c \in DOMAIN income_df.rows[i].val : income_df.rows[i].val[c] = NaN

Rendered(what) == view' = what /\ UNCHANGED crashed
CallbackRaised == view' = "http500" /\ crashed' = "callback"

\* (mutation) a callback that empties the shared tables in place
CallbackFrame_inplace ==
    /\ income_df' = (IF income_df.exc = "" THEN Frame(income_df.columns, <<>>)
                     ELSE income_df)
    /\ data_pivoted' = <<>>
    /\ UNCHANGED <<variant, pc, procNo, artifact, geojson_path, lru, gets, queries, failed>>
    /\ UNCHANGED cleanVars
    /\ UNCHANGED queryVars
    /\ UNCHANGED mainVars
    /\ UNCHANGED playVars

CallbackFrame ==
    /\ UNCHANGED <<variant, pc, procNo, artifact, geojson_path, income_df,
                   data_pivoted, lru, gets, queries, failed>>
    /\ UNCHANGED cleanVars
    /\ UNCHANGED queryVars
    /\ UNCHANGED mainVars
    /\ UNCHANGED playVars

\* app.py: init_map -> create_animated_map
init_map ==
    /\ pc = "serving" /\ variant = "app"
    /\ IF Unavailable THEN Rendered("error_figure")
       \* open(geojson_path) / json.load raise: caught
       ELSE IF ~artifact.exists \/ ~artifact.complete THEN Rendered("error_figure")
       ELSE Rendered("map")
    /\ CallbackFrame

\* app.py: update_line_chart
update_line_chart ==
    /\ pc = "serving" /\ variant = "app"
    /\ \E areas \in AreaInputs :
         \* None becomes [None], and ', '.join([None]) raises TypeError
         IF areas.none THEN CallbackRaised ELSE Rendered("chart")
    /\ CallbackFrame

\* app.py: update_data_table
update_data_table_app ==
    /\ pc = "serving" /\ variant = "app"
    /\ \E n_clicks \in Clicks, areas \in AreaInputs :
         IF n_clicks % 2 = 0 THEN Rendered("empty_div")
         ELSE IF income_df = NoneFrame \/ areas.none THEN Rendered("no_data")
         ELSE IF \E i \in 1..Len(areas.list) : ~IsColumn(areas.list[i])
              THEN Rendered("error_div")
         \* series.dropna().iloc[0] on an empty series: IndexError
         ELSE IF \E i \in 1..Len(areas.list) : EmptySeries(areas.list[i])
              THEN CallbackRaised
         ELSE Rendered("table")
    /\ CallbackFrame

\* main_dash.py: create_map
create_map ==
    /\ pc = "serving" /\ variant = "main_dash"
    /\ \E slider \in {MIN_YEAR, MAX_YEAR} :
         IF Unavailable THEN Rendered("error_figure")
         ELSE IF str(slider) \in income_df.columns THEN Rendered("map")
         ELSE Rendered("error_figure")
    /\ CallbackFrame

\* main_dash.py: update_data_table
update_data_table_dash ==
    /\ pc = "serving" /\ variant = "main_dash"
    /\ \E n_clicks \in Clicks :
         IF n_clicks % 2 = 0 THEN Rendered("empty_div")
         ELSE IF income_df = NoneFrame THEN Rendered("no_data")
         ELSE Rendered("table")
    /\ CallbackFrame

\* main_dash.py: update_memory_usage
update_memory_usage ==
    /\ pc = "serving" /\ variant = "main_dash"
    /\ \E n_clicks \in Clicks :
         IF n_clicks % 2 = 0 THEN Rendered("empty_div")
         ELSE IF income_df = NoneFrame THEN Rendered("no_data")
         ELSE Rendered("usage")
    /\ CallbackFrame

\* The process ends and the program is started again: the module globals
\* and caches are gone, the cache file stays.
Restart ==
    /\ pc \in {"serving", "crashed"}
    /\ procNo < MaxRestarts
    /\ procNo' = procNo + 1
    /\ pc' = "import"
    /\ geojson_path' = "unset" /\ income_df' = Unset /\ data_pivoted' = <<>>
    /\ lru' = Unset /\ gets' = 0 /\ queries' = <<>> /\ failed' = {}
    /\ crashed' = "" /\ view' = "none"
    /\ UNCHANGED <<variant, artifact>>
    /\ UNCHANGED cleanVars
    /\ UNCHANGED queryVars
    /\ UNCHANGED mainVars
    /\ UNCHANGED playVars

Next ==
    \/ ImportFuncs
    \/ DownloadAndOptimize
    \/ PrepareData
    \/ ModuleInit
    \/ init_map
    \/ update_line_chart
    \/ update_data_table_app
    \/ create_map
    \/ update_data_table_dash
    \/ update_memory_usage
    \/ Restart

Spec == Init /\ [][Next]_vars

(***************************************************************************)
(* SpecPlay: the playback controls of main_dash.py in one browser page.    *)
(* A callback gets the inputs and states of the page and its outputs are   *)
(* written back to the page; no_update leaves a property as it is.  The    *)
(* interval component fires every 1200 ms while it is not disabled.        *)
(***************************************************************************)
\* An output is no_update or a value to write, To(v).
no_update == <<>>
To(v) == <<v>>
Outputs(d, c, v) == [disabled |-> d, children |-> c, value |-> v]
Written(old, out) == IF out = no_update THEN old ELSE out[1]

\* (mutation) the button label not changed when playback starts
toggle_interval_label(clicks, is_disabled, current_year) ==
    IF clicks = 0 THEN Outputs(To(TRUE), To("Play"), no_update)
    ELSE IF is_disabled
         THEN Outputs(To(FALSE), no_update,
                      IF current_year = MAX_YEAR THEN To(MIN_YEAR) ELSE no_update)
         ELSE Outputs(To(TRUE), To("Play"), no_update)

toggle_interval(clicks, is_disabled, current_year) ==
    IF clicks = 0 THEN Outputs(To(TRUE), To("Play"), no_update)          \* initial load
    ELSE IF is_disabled
         THEN Outputs(To(FALSE), To("Stop"),
                      IF current_year = MAX_YEAR THEN To(MIN_YEAR) ELSE no_update)
         ELSE Outputs(To(TRUE), To("Play"), no_update)

\* (mutation) the end of the range not detected
update_slider_value_noend(current_year) ==
    IF current_year < MAX_YEAR
    THEN Outputs(no_update, no_update, To(current_year + 1))
    ELSE Outputs(no_update, no_update, To(MAX_YEAR))

\* update_slider_value(n_intervals, current_year); n_intervals is not read
update_slider_value(current_year) ==
    IF current_year < MAX_YEAR
    THEN Outputs(no_update, no_update, To(current_year + 1))
    ELSE Outputs(To(TRUE), To("Play"), To(MAX_YEAR))

InitPlay ==
    /\ phase = "layout"
    /\ LayoutValues
    /\ CleanIdle
    /\ QueryIdle
    /\ DashIdle
    /\ MainIdle

PlayFrame ==
    /\ UNCHANGED cleanVars
    /\ UNCHANGED queryVars
    /\ UNCHANGED dashVars
    /\ UNCHANGED mainVars

Write(out) ==
    /\ disabled' = Written(disabled, out.disabled)
    /\ children' = Written(children, out.children)
    /\ value' = Written(value, out.value)

\* the page is opened: dash calls toggle_interval with n_clicks = 0
PageLoad ==
    /\ phase = "layout"
    /\ phase' = "loaded"
    /\ Write(toggle_interval(play_n_clicks, disabled, value))
    /\ UNCHANGED <<play_n_clicks, moves>>
    /\ PlayFrame

\* the user clicks the play button
ClickPlay ==
    /\ phase = "loaded"
    /\ play_n_clicks < MaxClicks
    /\ play_n_clicks' = play_n_clicks + 1
    /\ Write(toggle_interval(play_n_clicks + 1, disabled, value))
    /\ UNCHANGED <<phase, moves>>
    /\ PlayFrame

\* the interval component fires
Tick ==
    /\ phase = "loaded"
    /\ ~disabled
    /\ Write(update_slider_value(value))
    /\ UNCHANGED <<phase, play_n_clicks, moves>>
    /\ PlayFrame

\* the user drags the slider to a year of its range
MoveSlider ==
    /\ phase = "loaded"
    /\ moves < MaxMoves
    /\ moves' = moves + 1
    /\ \E y \in MIN_YEAR..MAX_YEAR : value' = y
    /\ UNCHANGED <<phase, disabled, children, play_n_clicks>>
    /\ PlayFrame

NextPlay ==
    \/ PageLoad
    \/ ClickPlay
    \/ Tick
    \/ MoveSlider

SpecPlay == InitPlay /\ [][NextPlay]_vars /\ WF_vars(Tick)

(***************************************************************************)
(* SpecMain: the streamlit script main.py.  Each run executes main() from  *)
(* the top; what the st.cache_data functions returned is kept between the  *)
(* runs of one process (runs within the ttl).                              *)
(***************************************************************************)
InitMain ==
    /\ variant = "main"
    /\ pc = "m_load" /\ procNo = 0 /\ artifact = Absent
    /\ geojson_path = "unset" /\ income_df = Unset /\ data_pivoted = <<>>
    /\ lru = Unset /\ gets = 0 /\ queries = <<>> /\ failed = {}
    /\ crashed = "" /\ view = "none"
    /\ CleanIdle
    /\ QueryIdle
    /\ MainIdle
    /\ PlayIdle

MainFrame ==
    /\ UNCHANGED <<variant, procNo, artifact, geojson_path, data_pivoted>>
    /\ UNCHANGED cleanVars
    /\ UNCHANGED queryVars
    /\ UNCHANGED playVars

\* geojson_data, error = load_geojson_data(), and the checks that follow
MainLoadGeojson ==
    /\ pc = "m_load"
    /\ \E ans \in WfsAnswers :
         LET hit == geojson_data # NoAnswer
             data == IF hit THEN geojson_data ELSE ans
         IN  /\ geojson_data' = data
             /\ gets' = IF hit THEN gets ELSE gets + 1
             /\ IF data.kind # "ok"
                THEN /\ view' = "error"                          \* st.error(error)
                     /\ failed' = failed \cup {"boundary"}
                     /\ pc' = "m_done"
                ELSE /\ pc' = "m_process"
                     /\ UNCHANGED <<view, failed>>
    /\ UNCHANGED <<income_df, lru, queries, crashed, gdf, merged_gdf, report>>
    /\ MainFrame

\* gdf = process_geojson(geojson_data), and the check that follows
MainProcessGeojson ==
    /\ pc = "m_process"
    /\ LET g == process_geojson(geojson_data)
       IN  IF g.exc # ""
           THEN /\ Crash("process_geojson")
                /\ failed' = failed \cup {"boundary"}
                /\ UNCHANGED <<gdf, view>>
           ELSE /\ gdf' = g
                /\ UNCHANGED crashed
                /\ IF g.rows = <<>>                              \* gdf.empty
                   THEN /\ view' = "warning"
                        /\ failed' = failed \cup {"boundary"}
                        /\ pc' = "m_done"
                   ELSE /\ pc' = "m_income"
                        /\ UNCHANGED <<view, failed>>
    /\ UNCHANGED <<income_df, lru, gets, queries, geojson_data, merged_gdf, report>>
    /\ MainFrame

Imported == \E i \in 1..Len(queries) : queries[i].call = "import" /\ queries[i].ret.exc = ""

\* income_data = get_income_data(), and the check that follows.  The imports
\* inside get_income_data stand before its try: the first call runs the
\* module body of funcs/get_inc_data.py with its own make_query call.
MainGetIncome ==
    /\ pc = "m_income"
    /\ \E vi \in StatsAnswers, v \in StatsAnswers :
         LET hit == lru # Unset
             importCall == [call |-> "import", kind |-> vi.kind, ret |-> ImportQuery[vi]]
             ownCall == [call |-> "get_income_data", kind |-> v.kind, ret |-> MainQuery[v]]
             importFails == ~hit /\ ~Imported /\ ImportQuery[vi].exc # ""
             income_data == IF hit THEN lru ELSE MainIncome[v]
         IN  IF importFails
             THEN /\ queries' = Append(queries, importCall)
                  /\ Crash("import")
                  /\ UNCHANGED <<income_df, lru, failed, view>>
             ELSE /\ queries' = IF hit THEN queries
                                ELSE IF Imported THEN Append(queries, ownCall)
                                ELSE queries \o <<importCall, ownCall>>
                  /\ lru' = income_data
                  /\ income_df' = income_data
                  /\ failed' = IF hit THEN failed ELSE failed \cup MainFailures[v]
                  /\ UNCHANGED crashed
                  /\ IF income_data = NoneFrame
                     THEN view' = "warning" /\ pc' = "m_done"
                     ELSE pc' = "m_merge" /\ UNCHANGED view
    /\ UNCHANGED <<gets, geojson_data, gdf, merged_gdf, report>>
    /\ MainFrame

\* merged_gdf = merge_data(gdf, income_data), the check that follows, the
\* success message with the number of rows, and the map
MainMerge ==
    /\ pc = "m_merge"
    /\ LET m == merge_data(gdf, income_df)
       IN  IF m.exc \notin {"", "None"}
           THEN /\ Crash("merge_data")
                /\ UNCHANGED <<merged_gdf, report, view>>
           ELSE /\ merged_gdf' = m
                /\ pc' = "m_done"
                /\ UNCHANGED crashed
                /\ IF m = NoneFrame \/ m.rows = <<>>
                   THEN view' = "warning" /\ UNCHANGED report
                   ELSE /\ view' = "map"
                        /\ report' = [c \in {"result_rows"} |-> Len(m.rows)]
    /\ UNCHANGED <<income_df, lru, gets, queries, failed, geojson_data, gdf>>
    /\ MainFrame

\* The user interacts and streamlit runs the script again in the same
\* process.
MainRerun ==
    /\ pc \in {"m_done", "crashed"}
    /\ procNo < MaxRestarts
    /\ procNo' = procNo + 1
    /\ pc' = "m_load"
    /\ income_df' = Unset /\ gdf' = Unset /\ merged_gdf' = Unset
    /\ report' = NoCounts /\ crashed' = "" /\ view' = "none"
    /\ UNCHANGED <<variant, artifact, geojson_path, data_pivoted, lru, gets, queries,
                   failed, geojson_data>>
    /\ UNCHANGED cleanVars
    /\ UNCHANGED queryVars
    /\ UNCHANGED playVars

NextMain ==
    \/ MainLoadGeojson
    \/ MainProcessGeojson
    \/ MainGetIncome
    \/ MainMerge
    \/ MainRerun

SpecMain == InitMain /\ [][NextMain]_vars

(***************************************************************************)
(* Properties of the start-up pipeline of app.py and main_dash.py (Spec).  *)
(***************************************************************************)
\* C1: once a stage of the pipeline has failed (boundary, statistics or
\* cleaning), no exception escapes at start-up or in a callback, and a
\* serving program holds the "unavailable" output.
C1_FailureNeverCrashes ==
    failed # {} => /\ crashed = ""
                   /\ (pc = "serving" => Unavailable)

\* C2: a call of download_and_optimize_geojson that finds the cache artifact
\* returns its path, issues no boundary request and leaves the artifact as
\* it is.
C2_CacheFirst ==
    [][(pc = "download" /\ pc' = "prepare" /\ artifact.exists)
         => (gets' = gets /\ artifact' = artifact /\ geojson_path' = PATH)]_vars

\* C2 (case reached): a later process has passed the download step with the
\* artifact of an earlier one, without any request.
C2_Witness ==
    /\ procNo >= 1 /\ pc = "prepare"
    /\ artifact.exists /\ artifact.complete /\ Len(artifact.features) > 0
    /\ geojson_path = PATH /\ gets = 0

\* C3: whenever the cache artifact exists it holds a complete, non-empty
\* optimized feature collection (a failed optimization leaves no artifact).
C3_ArtifactCompleteNonEmpty ==
    artifact.exists => artifact.complete /\ Len(artifact.features) > 0

\* C4: within one process at most one statistics request (POST) and at most
\* one boundary request (GET) is issued, module import included.
C4_AtMostOneRequestEach ==
    Len(queries) <= 1 /\ gets <= 1

StatusAnswered(call) ==
    \E i \in 1..Len(queries) : queries[i].call = call /\ queries[i].kind = "status"

C8_NonSuccessIsNoData ==
    /\ \A i \in 1..Len(queries) :
         queries[i].kind = "status" => queries[i].ret = EmptyDataFrame
    /\ StatusAnswered("import") => crashed # "import"
    /\ StatusAnswered("get_income_data") =>
         income_df = NoneFrame /\ lru = NoneFrame /\ crashed # "prepare"

\* C8 (case reached): main_dash.py serves after a non-success answer to the
\* request of get_income_data, with income_df None.
C8_Witness ==
    /\ StatusAnswered("get_income_data")
    /\ pc = "serving" /\ income_df = NoneFrame /\ crashed = ""

(***************************************************************************)
(* Properties of main.py (SpecMain).                                       *)
(***************************************************************************)
\* the join step has been reached with a boundary table and a statistics
\* table
JoinAttempted ==
    /\ pc \in {"m_done", "crashed"}
    /\ gdf.exc = "" /\ gdf.rows # <<>> /\ income_df.exc = ""

BoundaryNames == {gdf.rows[i].nimi : i \in 1..Len(gdf.rows)}
StatisticsNames == {income_df.rows[i].AlueNimi : i \in 1..Len(income_df.rows)}

\* C5: the join keeps exactly the regions whose name is in both the
\* boundary set and the cleaned statistics table.
C5_InnerJoinByName ==
    JoinAttempted =>
        /\ merged_gdf.exc = ""
        /\ {merged_gdf.rows[i].nimi : i \in 1..Len(merged_gdf.rows)}
             = BoundaryNames \cap StatisticsNames

\* C6: every join reports boundaries matched, statistics matched, unmatched
\* boundaries, unmatched statistics and result rows.
C6_JoinReportsCounts ==
    JoinAttempted =>
        /\ DOMAIN report = {"boundaries_matched", "statistics_matched",
                            "unmatched_boundaries", "unmatched_statistics",
                            "result_rows"}
        /\ report["boundaries_matched"] = Cardinality(BoundaryNames \cap StatisticsNames)
        /\ report["unmatched_boundaries"] = Cardinality(BoundaryNames \ StatisticsNames)
        /\ report["unmatched_statistics"] = Cardinality(StatisticsNames \ BoundaryNames)

\* C14: when the boundary fetch, the statistics fetch and the cleaning
\* have all succeeded, main.py ends with its output table - the region name
\* and one numeric, nullable column per requested year - and no error.
C14_OutputTableProduced ==
    ( /\ pc \in {"m_done", "crashed"}
      /\ failed = {}
      /\ gdf.exc = "" /\ gdf.rows # <<>>
      /\ income_df.exc = "" )
    => /\ crashed = ""
       /\ merged_gdf.exc = ""
       /\ {ALUENIMI} \cup {MainYears[k] : k \in 1..Len(MainYears)}
             \subseteq merged_gdf.columns
       /\ \A i \in 1..Len(merged_gdf.rows) : \A k \in 1..Len(MainYears) :
             merged_gdf.rows[i].val[MainYears[k]].k \in {"num", "nan"}

\* the run got three regions, one of a municipality that is not listed, and
\* statistics with values for exactly the two other regions
EndToEndScenario ==
    /\ pc \in {"m_done", "crashed"}
    /\ geojson_data = [kind |-> "ok", features |-> ThreeRegions]
    /\ income_df.exc = ""
    /\ Len(income_df.rows) = 2
    /\ StatisticsNames = {N_Jollas, N_Otaniemi}
    /\ \A i \in 1..Len(income_df.rows) : \A k \in 1..Len(MainYears) :
          income_df.rows[i].val[MainYears[k]].k = "num"

\* C15: end to end, three regions of which one has a disallowed code and
\* statistics matching the two others give a joined output of exactly two
\* rows, each with a value in every requested year and no other year.
C15_EndToEndTwoRows ==
    EndToEndScenario =>
        /\ merged_gdf.exc = ""
        /\ Len(merged_gdf.rows) = 2
        /\ {merged_gdf.rows[i].nimi : i \in 1..Len(merged_gdf.rows)}
              = {N_Jollas, N_Otaniemi}
        /\ \A i \in 1..Len(merged_gdf.rows) :
              /\ DOMAIN merged_gdf.rows[i].val = {MainYears[k] : k \in 1..Len(MainYears)}
              /\ \A y \in DOMAIN merged_gdf.rows[i].val :
                    merged_gdf.rows[i].val[y].k = "num"

\* C7: the GeoDataFrame of process_geojson holds exactly the input features
\* whose municipality code is 091, 049 or 092; code "000" and features
\* without a code are left out.
C7_OnlyListedMunicipalities ==
    gdf.exc = "" =>
        /\ \A i \in 1..Len(gdf.rows) : gdf.rows[i].kunta \in {"091", "049", "092"}
        /\ \A j \in 1..Len(geojson_data.features) :
             geojson_data.features[j].kunta \in {"091", "049", "092"}
               => \E i \in 1..Len(gdf.rows) : gdf.rows[i] = geojson_data.features[j]

(***************************************************************************)
(* Properties of clean_data (SpecClean).                                   *)
(***************************************************************************)
Returned == cleanRet.exc = ""

\* The label of the input row an output row was made from (same index).
LabelOf(o) ==
    LET i == CHOOSE k \in 1..Len(cleanArg.rows) : cleanArg.rows[k].idx = o.idx
    IN  cleanArg.rows[i].Alue

OutIdx == {cleanRet.rows[i].idx : i \in 1..Len(cleanRet.rows)}

\* C9: clean_data never emits a row whose area label contained the district
\* marker 'piiri': every such input row is absent from the returned table.
C9_NoDistrictRowEmitted ==
    Returned =>
        \A i \in 1..Len(cleanArg.rows) :
            contains(cleanArg.rows[i].Alue, PIIRI) => cleanArg.rows[i].idx \notin OutIdx

\* A table was returned with at least one row, from an input that held a
\* district row whose second piece is numeric (only the marker drops it).
C9_Witness ==
    /\ Returned
    /\ Len(cleanRet.rows) > 0
    /\ \E i \in 1..Len(cleanArg.rows) :
          /\ contains(cleanArg.rows[i].Alue, PIIRI)
          /\ Len(Pieces(cleanArg.rows[i])) = 3
          /\ NumericRegion(cleanArg.rows[i])

\* Python's s.split(None, n): tokens are maximal runs of non-whitespace.
IsWs(c) == c \in {SPACE, TAB}
RECURSIVE lstrip(_)
lstrip(s) == IF Len(s) > 0 /\ IsWs(s[1]) THEN lstrip(Tail(s)) ELSE s
findWs(s) ==
    IF \E i \in 1..Len(s) : IsWs(s[i])
    THEN CHOOSE i \in 1..Len(s) : IsWs(s[i]) /\ \A j \in 1..(i - 1) : ~IsWs(s[j])
    ELSE 0
RECURSIVE wssplit(_, _)
wssplit(s, n) ==
    LET t == lstrip(s)
    IN  IF t = <<>> THEN <<>>
        ELSE IF n = 0 \/ findWs(t) = 0 THEN <<t>>
        ELSE <<SubSeq(t, 1, findWs(t) - 1)>>
             \o wssplit(SubSeq(t, findWs(t) + 1, Len(t)), n - 1)

\* C10 as stated: every returned row carries the first whitespace-delimited
\* token of its label as municipality number, the second as region number
\* and everything after the first two tokens as region name.
C10_WhitespaceTokens ==
    Returned =>
        \A i \in 1..Len(cleanRet.rows) :
            LET o == cleanRet.rows[i]
                w == wssplit(LabelOf(o), SplitN)
            IN  /\ Len(w) >= 2
                /\ o.KuntaNum = w[1]
                /\ o.AlueNum = w[2]
                /\ o.AlueNimi = (IF Len(w) >= 3 THEN w[3] ELSE NoneVal)

\* C10 amended: the label is cut at its first two space characters
\* (U+0020 only, each one a separator): the municipality number is the text
\* before the first space, the region number the text between the first and
\* the second space, both free of spaces, and the region name is everything
\* after the second space (missing when there is none), so gluing the parts
\* with single spaces gives the label back; the label column is removed and
\* the three derived columns are added.
C10_SplitAtFirstTwoSpaces ==
    Returned =>
        /\ ALUE \notin cleanRet.columns
        /\ {ALUENUM, ALUENIMI, KUNTANUM} \subseteq cleanRet.columns
        /\ \A i \in 1..Len(cleanRet.rows) :
              LET o == cleanRet.rows[i]
              IN  /\ find(o.KuntaNum, SPACE) = 0
                  /\ find(o.AlueNum, SPACE) = 0
                  /\ LabelOf(o) =
                        IF o.AlueNimi = NoneVal
                        THEN o.KuntaNum \o <<SPACE>> \o o.AlueNum
                        ELSE o.KuntaNum \o <<SPACE>> \o o.AlueNum
                             \o <<SPACE>> \o o.AlueNimi

\* "091 220 Jollas" came out as ("091", "220", "Jollas") next to a row whose
\* name keeps its inner space.
C10_Witness ==
    /\ Returned
    /\ \E i \in 1..Len(cleanRet.rows) :
          /\ cleanRet.rows[i].KuntaNum = <<"0","9","1">>
          /\ cleanRet.rows[i].AlueNum = <<"2","2","0">>
          /\ cleanRet.rows[i].AlueNimi = <<"J","o","l","l","a","s">>
    /\ \E i \in 1..Len(cleanRet.rows) :
          cleanRet.rows[i].AlueNimi
              = <<"P","o","h","j","o","i","s"," ","T","a","p","i","o","l","a">>

\* the second whitespace-delimited token of a label is purely numeric
SecondTokenNumeric(l) ==
    Len(wssplit(l, SplitN)) >= 2 /\ isnumeric(wssplit(l, SplitN)[2])

\* C11: clean_data drops every row whose second label token is not purely
\* numeric and keeps, in input order, every non-district row whose second
\* token is purely numeric; every output row has a purely numeric region
\* number.
C11_KeepsExactlyNumericRegionRows ==
    cleanRet # NotCalled =>
        /\ \A i \in 1..Len(cleanArg.rows) :
              LET r == cleanArg.rows[i]
              IN  IF SecondTokenNumeric(r.Alue) /\ ~contains(r.Alue, PIIRI)
                  THEN Returned /\ r.idx \in OutIdx
                  ELSE Returned => r.idx \notin OutIdx
        /\ Returned =>
              /\ \A i \in 1..Len(cleanRet.rows) : isnumeric(cleanRet.rows[i].AlueNum)
              /\ \A i, j \in 1..Len(cleanRet.rows) :
                    i < j => cleanRet.rows[i].idx < cleanRet.rows[j].idx

\* C17: no two rows of the table clean_data returns share a region name.
C17_OneRowPerRegionName ==
    Returned =>
        \A i, j \in 1..Len(cleanRet.rows) :
            i # j => cleanRet.rows[i].AlueNimi # cleanRet.rows[j].AlueNimi

C23_NeverRaisesOnAlueTable ==
    (cleanRet # NotCalled /\ ALUE \in cleanArg.columns) => Returned

(***************************************************************************)
(* Properties of make_query (SpecQuery).                                   *)
(***************************************************************************)
\* the service answered 200 and make_query returned its table
QueryReturned == queryResp.kind = "ok" /\ queryRet.exc = ""
RequestedYears == {queryYears[k] : k \in 1..Len(queryYears)}
RawHeader == queryResp.csv.header

\* the text of h before its first space character
BeforeFirstSpace(h) ==
    IF \E k \in 1..Len(h) : h[k] = SPACE
    THEN SubSeq(h, 1, (CHOOSE k \in 1..Len(h) :
                          h[k] = SPACE /\ \A m \in 1..(k - 1) : h[m] # SPACE) - 1)
    ELSE h

\* the raw text of the cell of year y in the csv line an output row came from
RawYearCell(o, y) ==
    LET j == CHOOSE k \in 1..Len(RawHeader) :
                 /\ BeforeFirstSpace(RawHeader[k]) = y
                 /\ \A m \in 1..(k - 1) : BeforeFirstSpace(RawHeader[m]) # y
    IN  queryResp.csv.rows[o.idx + 1][j]

\* C12: no returned row is missing in all of the requested year columns.
C12_NoRowMissingInAllYears ==
    QueryReturned =>
        \A i \in 1..Len(queryRet.rows) :
            \E y \in RequestedYears : queryRet.rows[i].val[y] # NaN

\* C13: in the returned table a requested-year cell whose raw text is ".."
\* is null (not zero), a cell with numeric text keeps its value, and a csv
\* whose requested-year cells are all "..", empty or numeric is parsed
\* without an error.
C13_SentinelIsNull ==
    /\ QueryReturned =>
         \A i \in 1..Len(queryRet.rows) : \A y \in RequestedYears :
            LET raw == RawYearCell(queryRet.rows[i], y)
                v == queryRet.rows[i].val[y]
            IN  /\ raw = DOTS => (v = NaN /\ v # Num(0))
                /\ isnumeric(raw) => v = Num(atoi(raw))
    /\ ( /\ queryRet # NotCalled
         /\ queryResp.kind = "ok"
         /\ RequestedYears \subseteq {BeforeFirstSpace(RawHeader[k]) : k \in 1..Len(RawHeader)}
         /\ \A i \in 1..Len(queryResp.csv.rows) : \A k \in 2..Len(RawHeader) :
               BeforeFirstSpace(RawHeader[k]) \in RequestedYears =>
                  \/ queryResp.csv.rows[i][k] \in {DOTS, <<>>}
                  \/ isnumeric(queryResp.csv.rows[i][k]) )
       => QueryReturned

\* C13 (case reached): a returned row holds a null where the csv had ".."
\* and a row holds the number 0 where the csv had "0".
C13_Witness ==
    /\ QueryReturned
    /\ \E i \in 1..Len(queryRet.rows) : \E y \in RequestedYears :
          /\ RawYearCell(queryRet.rows[i], y) = DOTS
          /\ queryRet.rows[i].val[y] = NaN
    /\ \E i \in 1..Len(queryRet.rows) : \E y \in RequestedYears :
          /\ RawYearCell(queryRet.rows[i], y) = T_Zero
          /\ queryRet.rows[i].val[y] = Num(0)

\* C20 as stated: every column of the returned table is named by the first
\* whitespace-delimited token of its raw header.
C20_FirstWhitespaceToken ==
    QueryReturned =>
        queryRet.columns = {wssplit(RawHeader[k], -1)[1] : k \in 1..Len(RawHeader)}

\* C20 amended: every column of the returned table is named by the text of
\* its raw header before the first space character (U+0020; a tab does not
\* end the name and a leading space gives the empty name), the rest of the
\* header being discarded; the requested years are among the names.
C20_TextBeforeFirstSpace ==
    QueryReturned =>
        /\ queryRet.columns = {BeforeFirstSpace(RawHeader[k]) : k \in 1..Len(RawHeader)}
        /\ RequestedYears \subseteq queryRet.columns

\* C20 (case reached): a table was returned from headers with a suffix, and
\* one of its names differs from the first whitespace-delimited token.
C20_Witness ==
    /\ QueryReturned
    /\ \E k \in 1..Len(RawHeader) :
          /\ BeforeFirstSpace(RawHeader[k]) \in RequestedYears
          /\ RawHeader[k] # BeforeFirstSpace(RawHeader[k])
    /\ \E k \in 1..Len(RawHeader) :
          BeforeFirstSpace(RawHeader[k]) # wssplit(RawHeader[k], -1)[1]

(***************************************************************************)
(* Properties of the playback controls of main_dash.py (SpecPlay).         *)
(***************************************************************************)
\* C21: the button reads 'Stop' exactly when the interval timer is enabled
\* and 'Play' exactly when it is disabled; the page starts disabled with
\* 'Play'.
C21_LabelMatchesInterval ==
    /\ children \in {"Play", "Stop"}
    /\ children = "Stop" <=> ~disabled
    /\ children = "Play" <=> disabled
    /\ phase = "layout" => (disabled /\ children = "Play")

\* C21 (case reached): playback runs after a start, a stop and a second
\* start, and ticks have moved the year.
C21_Witness ==
    /\ phase = "loaded" /\ play_n_clicks = 3
    /\ ~disabled /\ children = "Stop"
    /\ value > MIN_YEAR

\* C22: the selected year stays within MIN_YEAR..MAX_YEAR; a tick below
\* MAX_YEAR adds exactly 1 and leaves playback running, a tick at MAX_YEAR
\* stops it (interval disabled, 'Play', year MAX_YEAR); starting playback at
\* MAX_YEAR sets the year to MIN_YEAR; and once the user acts no more, a
\* running playback leads to the stopped state at MAX_YEAR.
C22_PlaybackRunsToMaxYear ==
    /\ [](value \in MIN_YEAR..MAX_YEAR)
    /\ [][Tick => IF value < MAX_YEAR
                  THEN /\ value' = value + 1
                       /\ ~disabled' /\ children' = "Stop"
                  ELSE /\ value' = MAX_YEAR
                       /\ disabled' /\ children' = "Play"]_vars
    /\ [][(ClickPlay /\ disabled /\ value = MAX_YEAR)
             => (value' = MIN_YEAR /\ ~disabled')]_vars
    /\ (~disabled /\ play_n_clicks = MaxClicks /\ moves = MaxMoves)
          ~> (disabled /\ children = "Play" /\ value = MAX_YEAR)

\* C22 (case reached): after the last click and the last slider move the
\* playback has stopped at MAX_YEAR.
C22_Witness ==
    /\ phase = "loaded"
    /\ play_n_clicks = MaxClicks /\ moves = MaxMoves
    /\ disabled /\ children = "Play" /\ value = MAX_YEAR

====
